---- MODULE Spec2Model ----
(***************************************************************************)
(* Model of the connection manager (useDataConnection) and of the network  *)
(* transport hook (useHttp) of web-serial-plotter.                         *)
(*                                                                         *)
(* Every async function is cut at its awaits: one action per synchronous   *)
(* stretch of code.  An await on a promise that is already resolved        *)
(* (http.disconnect(), the unsupported return of http.connect) resumes as  *)
(* a microtask: these continuations run in the order they were queued (mq) *)
(* and before any event of the environment (socket, fetch, timer, serial   *)
(* port).  A value read through a useCallback closure                      *)
(* (serial.state.isConnected, generator.isRunning, http.state.isConnected) *)
(* is the value at the time of the call, kept in the call's record.        *)
(* useSerial and useSignalGenerator are modelled from the way the manager  *)
(* uses them and from the specification.                                   *)
(* HttpState.address is written at line 72 and read nowhere: it is left    *)
(* out.  A timer of line 103 that fires after its promise has settled does *)
(* nothing, so only the firing that rejects is an action.                  *)
(***************************************************************************)
EXTENDS Integers, Sequences, FiniteSets, TLC

\* Bounds of the model.
MaxTasks == 2       \* manager calls that may be in flight at once
MaxAttempts == 2    \* http.connect attempts over a run
MaxCalls == 3       \* manager calls made over a run

Null == "null"

TaskIds == 1..MaxTasks
AttIds == 1..MaxAttempts

VARIABLES
  connectionType,     \* useState<ConnectionType | null>
  isConnecting,       \* useState(false) of the manager
  error,              \* useState<string | null> of the manager
  serial,             \* useSerial().state
  generator,          \* useSignalGenerator(): isRunning
  http,               \* useHttp() state
  abortControllerRef, \* useHttp ref: attempt whose controller it holds, 0 = null
  socketRef,          \* useHttp ref: attempt whose socket it holds, 0 = null
  att,                \* per http.connect attempt: controller, socket, promise, read loop
  nAtt,               \* attempts created so far
  nCalls,             \* manager calls made so far
  task,               \* manager calls in flight: operation, position, closure snapshot
  mq,                 \* microtask queue: calls whose await resumes next
  ret,                \* the manager call that returned in this step, and how
  failedSince,        \* a connect call failed and no connect call succeeded since
  lastLine,           \* the attempt that hands a line to the manager's handler in this step, 0 = none
  lastWrite,          \* what the write() call just made returned; none after any other step
  cancelled,          \* attempts that were delivering when a disconnect or a connect to
                      \* another backend was made, and still are after its teardown
  rd,                 \* one network connection's byte stream: decoder, buffer, lines handed on
  cobs,               \* one frame: payload, encoded bytes, what decodeCOBS returned
  chart,              \* one ring store, the samples appended to it, the last export
  dec                 \* one run of decodeCOBS's loop: input, read offset, output so far

connVars == <<connectionType, isConnecting, error, serial, generator, http,
          abortControllerRef, socketRef, att, nAtt, nCalls, task, mq,
          ret, failedSince, lastLine, lastWrite, cancelled>>
pureVars == <<rd, cobs, chart, dec>>
vars == <<connVars, pureVars>>

mgrVars == <<connectionType, isConnecting, error>>
httpVars == <<http, abortControllerRef, socketRef, att>>

NoAtt == [mode |-> "none", aborted |-> FALSE, sock |-> "none",
          wait |-> "none", loop |-> "none"]

NoTask == [op |-> "none", pc |-> "free", snapS |-> FALSE, snapG |-> FALSE,
           snapH |-> FALSE, a |-> 0, mode |-> "none", sup |-> FALSE, ovl |-> FALSE,
           live |-> {}]

NoWrite == [res |-> "none", afterFail |-> FALSE]

NoRet == [op |-> "none", how |-> "none", res |-> "none", sup |-> FALSE,
          ovl |-> FALSE, prior |-> {}]

\* No byte stream under study.
NoRead == [mode |-> "none", received |-> <<>>, pending |-> FALSE, buffer |-> <<>>,
           sink |-> <<>>]

\* No frame under study.
NoFrame == [stage |-> "none", src |-> "none", b |-> <<>>, data |-> <<>>,
            res |-> [thrown |-> FALSE, value |-> <<>>]]

\* No run of the decoder's loop under study.
NoLoop == [stage |-> "none", data |-> <<>>, i |-> 0, output |-> <<>>]

\* No export made.
NoOut == [kind |-> "none", options |-> [includeTimestamps |-> FALSE, timeFormat |-> "undefined"],
          lo |-> 0, hi |-> 0, thrown |-> FALSE, text |-> <<>>,
          wav |-> [numChannels |-> 0, sampleRate |-> 0, dataSize |-> 0, samples |-> <<>>]]

\* No store under study.
NoChart ==
  [store |-> [capacity |-> 0, writeIndex |-> 0, series |-> <<>>, times |-> <<>>,
              buffers |-> <<>>, firstTimestamp |-> [set |-> FALSE, v |-> 0]],
   log |-> <<>>, out |-> NoOut]

InitConnection ==
  /\ connectionType = Null
  /\ isConnecting = FALSE
  /\ error = Null
  /\ serial = [isConnecting |-> FALSE, isConnected |-> FALSE, error |-> Null]
  /\ generator = [isRunning |-> FALSE]
  /\ \E sup \in BOOLEAN :
       http = [isSupported |-> sup, isConnecting |-> FALSE, isConnected |-> FALSE,
               error |-> Null]
  /\ abortControllerRef = 0
  /\ socketRef = 0
  /\ att = [a \in AttIds |-> NoAtt]
  /\ nAtt = 0
  /\ nCalls = 0
  /\ task = [t \in TaskIds |-> NoTask]
  /\ mq = <<>>
  /\ ret = NoRet
  /\ failedSince = FALSE
  /\ lastLine = 0
  /\ lastWrite = NoWrite
  /\ cancelled = {}

Init ==
  InitConnection /\ rd = NoRead /\ cobs = NoFrame /\ chart = NoChart /\ dec = NoLoop

----------------------------------------------------------------------------
(* The externally visible record.                                          *)

StateType == connectionType
StateIsConnecting == isConnecting \/ serial.isConnecting \/ http.isConnecting
StateIsConnected == serial.isConnected \/ generator.isRunning \/ http.isConnected
StateError ==
  IF error # Null THEN error
  ELSE IF serial.error # Null THEN serial.error
  ELSE http.error

----------------------------------------------------------------------------
(* Calls.                                                                  *)

ConnectOps == {"connectSerial", "connectHttp", "connectGenerator"}

InFlight(t) == task[t].pc # "free"
FreeSlot(t) ==
  /\ nCalls < MaxCalls
  /\ ~InFlight(t)
  /\ \A u \in TaskIds : u < t => InFlight(u)

\* No continuation is queued: the environment's next event may run.
MacroTurn == mq = <<>>
\* Call t's continuation is the next microtask.
MicroTurn(t) == mq # <<>> /\ Head(mq) = t

\* An attempt that can still hand lines to the line handler.
Live(a) ==
  \/ att[a].sock = "open"
  \/ att[a].loop = "reading" /\ ~att[a].aborted
LiveNow == {a \in AttIds : Live(a)}

NewTask(o) ==
  [op |-> o, pc |-> "start", snapS |-> serial.isConnected,
   snapG |-> generator.isRunning, snapH |-> http.isConnected,
   a |-> 0, mode |-> "none", sup |-> FALSE,
   ovl |-> \E u \in TaskIds : task[u].pc # "free", live |-> LiveNow]

\* A new connect call supersedes every call still in flight.
Supersede(T) ==
  [u \in TaskIds |-> IF T[u].pc # "free"
                     THEN [T[u] EXCEPT !.sup = TRUE, !.ovl = TRUE] ELSE T[u]]

\* A new disconnect call overlaps every call still in flight.
Overlap(T) ==
  [u \in TaskIds |-> IF T[u].pc # "free" THEN [T[u] EXCEPT !.ovl = TRUE] ELSE T[u]]

\* The backend a connect operation connects.
BackendOf(o) ==
  CASE o = "connectSerial" -> "serial"
    [] o = "connectHttp" -> "http"
    [] o = "connectGenerator" -> "generator"
    [] OTHER -> "none"

\* The backends call record c saw connected when it was made.
ConnectedAtCall(c) ==
  (IF c.snapS THEN {"serial"} ELSE {}) \cup
  (IF c.snapH THEN {"http"} ELSE {}) \cup
  (IF c.snapG THEN {"generator"} ELSE {})

\* Call c returns: resolved or rejected (how), its backend's attempt ok or failed (r).
Returns(c, h, r) ==
  /\ ret' = [op |-> c.op, how |-> h, res |-> r, sup |-> c.sup, ovl |-> c.ovl,
             prior |-> ConnectedAtCall(c) \ {BackendOf(c.op)}]
  /\ failedSince' = IF c.op \in ConnectOps THEN r = "failed" ELSE failedSince

----------------------------------------------------------------------------
(* useHttp.                                                                *)

\* An attempt with nothing left to happen: socket closed or none, promise settled,
\* read loop over or never started.
Finished(r) ==
  /\ r.wait = "settled"
  /\ r.sock \in {"none", "closed"}
  /\ r.loop \in {"none", "ended"}
Tidy(A) == [a \in AttIds |-> IF Finished(A[a]) THEN NoAtt ELSE A[a]]

\* disconnect(): abort the controller, close the socket, clear both refs.
\* writerRef is never assigned, so its branch does nothing and nothing is awaited.
DisconnectedAtt ==
  [a \in AttIds |->
     [att[a] EXCEPT
        !.aborted = IF a = abortControllerRef /\ att[a].mode # "none" THEN TRUE ELSE @,
        !.sock = IF a # socketRef THEN @
                 ELSE IF @ = "connecting" THEN "closing_c"
                 ELSE IF @ = "open" THEN "closing_o"
                 ELSE @]]

HttpDisconnect ==
  /\ att' = DisconnectedAtt
  /\ abortControllerRef' = 0
  /\ socketRef' = 0
  /\ http' = [http EXCEPT !.isConnected = FALSE]

\* connect(), lines 64-67: the unsupported branch records an error and returns.
HttpUnsupported ==
  /\ http' = [http EXCEPT !.error = "Streaming fetch not supported in this browser."]
  /\ UNCHANGED <<abortControllerRef, socketRef, att>>

\* connect(), lines 72-104 and 108: state update, new controller, then the socket
\* with its open wait and 5 s timer, or the fetch.
HttpCreate(a, m) ==
  /\ http' = [http EXCEPT !.isConnecting = TRUE, !.error = Null]
  /\ abortControllerRef' = a
  /\ socketRef' = IF m = "ws" THEN a ELSE socketRef
  /\ att' = [att EXCEPT ![a] =
       IF m = "ws"
       THEN [mode |-> "ws", aborted |-> FALSE, sock |-> "connecting",
             wait |-> "pending", loop |-> "none"]
       ELSE [mode |-> "fetch", aborted |-> FALSE, sock |-> "none",
             wait |-> "pending", loop |-> "none"]]

\* The manager call awaiting attempt a.
Owner(a) == CHOOSE t \in TaskIds : task[t].pc = "ch_awaitHttp" /\ task[t].a = a

\* connect() line 145 and 152, then connectHttp lines 103 and 110.
HttpSucceed(a, A) ==
  /\ att' = Tidy(A)
  /\ http' = [http EXCEPT !.isConnected = TRUE, !.isConnecting = FALSE]
  /\ connectionType' = "http"
  /\ isConnecting' = FALSE
  /\ task' = [task EXCEPT ![Owner(a)] = NoTask]
  /\ Returns(task[Owner(a)], "resolved", "ok")
  /\ UNCHANGED <<error, abortControllerRef, socketRef>>

\* connect() lines 147-152, then connectHttp lines 104-110.
\* closed: the socket's close event (lines 90-92) runs in the same turn.
HttpFail(a, A, msg, closed) ==
  /\ att' = Tidy(A)
  /\ http' = [http EXCEPT !.error = msg, !.isConnecting = FALSE,
                          !.isConnected = IF closed THEN FALSE ELSE @]
  /\ error' = msg
  /\ connectionType' = Null
  /\ isConnecting' = FALSE
  /\ task' = [task EXCEPT ![Owner(a)] = NoTask]
  /\ Returns(task[Owner(a)], "rejected", "failed")
  /\ UNCHANGED <<abortControllerRef, socketRef>>

\* lineHandlerRef.current?.(line): the handler the manager registered (lines 155-158).
Emit(a) == lastLine' = a

\* What an event of the environment that is not a settling connect leaves alone.
EventFrame ==
  /\ ret' = NoRet
  /\ UNCHANGED <<mgrVars, serial, generator, abortControllerRef, socketRef,
                 nAtt, nCalls, task, mq, failedSince, cancelled>>
\* What a settling http.connect leaves alone.
SettleFrame == lastLine' = 0 /\ UNCHANGED <<serial, generator, nAtt, nCalls, mq, cancelled>>

\* socket.onopen: resolves the open wait when it is still pending.
SocketOpen(a) ==
  /\ MacroTurn
  /\ att[a].sock = "connecting"
  /\ LET A == [att EXCEPT ![a].sock = "open", ![a].wait = "settled"] IN
     IF att[a].wait = "pending"
     THEN HttpSucceed(a, A) /\ SettleFrame
     ELSE att' = A /\ lastLine' = 0 /\ UNCHANGED http /\ EventFrame

\* The connection cannot be established: error event (line 101), then close event
\* (lines 90-92).
SocketFail(a) ==
  /\ MacroTurn
  /\ att[a].sock = "connecting"
  /\ LET A == [att EXCEPT ![a].sock = "closed", ![a].wait = "settled"] IN
     IF att[a].wait = "pending"
     THEN HttpFail(a, A, "Failed to connect to WebSocket", TRUE) /\ SettleFrame
     ELSE /\ att' = Tidy(A)
          /\ http' = [http EXCEPT !.isConnected = FALSE]
          /\ lastLine' = 0 /\ EventFrame

\* A socket closed by disconnect() finishes closing.  Closed while connecting, it
\* fires the error event first; the close event always runs onclose.
SocketClosed(a) ==
  /\ MacroTurn
  /\ att[a].sock \in {"closing_c", "closing_o"}
  /\ LET A == [att EXCEPT ![a].sock = "closed", ![a].wait = "settled"] IN
     IF att[a].sock = "closing_c" /\ att[a].wait = "pending"
     THEN HttpFail(a, A, "Failed to connect to WebSocket", TRUE) /\ SettleFrame
     ELSE /\ att' = Tidy(A)
          /\ http' = [http EXCEPT !.isConnected = FALSE]
          /\ lastLine' = 0 /\ EventFrame

\* setTimeout(() => reject(new Error('Connection timeout')), 5000), line 103.
Timeout(a) ==
  /\ MacroTurn
  /\ att[a].mode = "ws" /\ att[a].wait = "pending"
  /\ HttpFail(a, [att EXCEPT ![a].wait = "settled"], "Connection timeout", FALSE)
  /\ SettleFrame

\* The peer closes an open socket: socket.onclose, lines 90-92.  The handler of
\* line 94 was replaced at line 101, so an error event records nothing.
PeerClose(a) ==
  /\ MacroTurn
  /\ att[a].sock = "open"
  /\ att' = Tidy([att EXCEPT ![a].sock = "closed"])
  /\ http' = [http EXCEPT !.isConnected = FALSE]
  /\ lastLine' = 0 /\ EventFrame

\* socket.onmessage, lines 86-88.
Message(a) ==
  /\ MacroTurn
  /\ att[a].sock = "open"
  /\ Emit(a)
  /\ UNCHANGED <<http, att>> /\ EventFrame

\* fetch resolves (lines 108-145): without a body connect throws, with one the
\* read loop starts and the state becomes connected.
FetchResponse(a, body) ==
  /\ MacroTurn
  /\ att[a].mode = "fetch" /\ att[a].wait = "pending" /\ ~att[a].aborted
  /\ IF body
     THEN HttpSucceed(a, [att EXCEPT ![a].wait = "settled", ![a].loop = "reading"])
     ELSE HttpFail(a, [att EXCEPT ![a].wait = "settled"], "Response has no body", FALSE)
  /\ SettleFrame

\* fetch rejects: a network error, or its signal was aborted.
FetchReject(a) ==
  /\ MacroTurn
  /\ att[a].mode = "fetch" /\ att[a].wait = "pending"
  /\ HttpFail(a, [att EXCEPT ![a].wait = "settled"], "Failed to fetch", FALSE)
  /\ SettleFrame

\* reader.read() yields a chunk holding a line: lines 124-134.
Chunk(a) ==
  /\ MacroTurn
  /\ att[a].loop = "reading" /\ ~att[a].aborted
  /\ Emit(a)
  /\ UNCHANGED <<http, att>> /\ EventFrame

\* reader.read() yields done: line 125, the loop ends and nothing else happens.
StreamDone(a) ==
  /\ MacroTurn
  /\ att[a].loop = "reading" /\ ~att[a].aborted
  /\ att' = Tidy([att EXCEPT ![a].loop = "ended"])
  /\ lastLine' = 0 /\ UNCHANGED http /\ EventFrame

\* reader.read() rejects: lines 137-141.
ReadFail(a) ==
  /\ MacroTurn
  /\ att[a].loop = "reading"
  /\ att' = Tidy([att EXCEPT ![a].loop = "ended"])
  /\ http' = IF att[a].aborted THEN http
             ELSE [http EXCEPT !.error = "Stream ended unexpectedly", !.isConnected = FALSE]
  /\ lastLine' = 0 /\ EventFrame

----------------------------------------------------------------------------
(* useSerial and useSignalGenerator, as the manager uses them.             *)

\* serial.connect(baudRate) begins: connecting, error cleared.
SerialConnecting == [serial EXCEPT !.isConnecting = TRUE, !.error = Null]
\* serial.disconnect() has completed.
SerialDisconnected == [serial EXCEPT !.isConnected = FALSE]
\* generator.stop()
GeneratorStopped == [generator EXCEPT !.isRunning = FALSE]
\* generator.start()
GeneratorStarted == [generator EXCEPT !.isRunning = TRUE]

----------------------------------------------------------------------------
(* useDataConnection.                                                      *)

\* The attempts that were delivering when call t was made and still are.
StillLive(T, t) == {a \in T[t].live : Live(a)}

\* connectSerial lines 69-75: setIsConnecting(true), setError(null), serial.connect.
SerialBegin(t, T) ==
  /\ isConnecting' = TRUE
  /\ error' = Null
  /\ serial' = SerialConnecting
  /\ task' = [T EXCEPT ![t].pc = "cs_awaitSerial", ![t].live = {}]
  /\ cancelled' = cancelled \cup StillLive(T, t)
  /\ UNCHANGED connectionType

\* connectSerial lines 60-67, and on to line 75 when nothing is awaited.
StartConnectSerial(t) ==
  /\ FreeSlot(t)
  /\ nCalls' = nCalls + 1
  /\ LET T == [Supersede(task) EXCEPT ![t] = NewTask("connectSerial")] IN
     /\ generator' = IF generator.isRunning THEN GeneratorStopped ELSE generator
     /\ IF http.isConnected
        THEN /\ HttpDisconnect
             /\ task' = [T EXCEPT ![t].pc = "cs_afterHttpDisc"]
             /\ mq' = Append(mq, t)
             /\ UNCHANGED <<mgrVars, serial, cancelled>>
        ELSE /\ SerialBegin(t, T)
             /\ UNCHANGED <<httpVars, mq>>
  /\ UNCHANGED <<nAtt, failedSince>>
  /\ ret' = NoRet

\* connectSerial resumes after await http.disconnect().
CsAfterHttpDisc(t) ==
  /\ MicroTurn(t)
  /\ task[t].pc = "cs_afterHttpDisc"
  /\ mq' = Tail(mq)
  /\ SerialBegin(t, task)
  /\ UNCHANGED <<generator, httpVars, nAtt, nCalls, failedSince>>
  /\ ret' = NoRet

\* serial.connect resolves: connectSerial lines 76 and 85.
SerialConnectOk(t) ==
  /\ MacroTurn
  /\ task[t].pc = "cs_awaitSerial"
  /\ serial' = [serial EXCEPT !.isConnecting = FALSE, !.isConnected = TRUE]
  /\ connectionType' = "serial"
  /\ isConnecting' = FALSE
  /\ task' = [task EXCEPT ![t] = NoTask]
  /\ Returns(task[t], "resolved", "ok")
  /\ UNCHANGED <<error, generator, httpVars, nAtt, nCalls, mq, cancelled>>

\* serial.connect rejects: connectSerial lines 79-85.
SerialConnectFail(t) ==
  /\ MacroTurn
  /\ task[t].pc = "cs_awaitSerial"
  /\ serial' = [serial EXCEPT !.isConnecting = FALSE, !.error = "Failed to open serial port"]
  /\ error' = "Failed to open serial port"
  /\ connectionType' = Null
  /\ isConnecting' = FALSE
  /\ task' = [task EXCEPT ![t] = NoTask]
  /\ Returns(task[t], "rejected", "failed")
  /\ UNCHANGED <<generator, httpVars, nAtt, nCalls, mq, cancelled>>

\* connectHttp lines 94-102: generator.stop() on the closure's isRunning,
\* setIsConnecting(true), setError(null), then http.connect up to its first await.
HttpBegin(t, T, Q) ==
  /\ generator' = IF T[t].snapG THEN GeneratorStopped ELSE generator
  /\ isConnecting' = TRUE
  /\ error' = Null
  /\ IF ~http.isSupported
     THEN /\ HttpUnsupported
          /\ task' = [T EXCEPT ![t].pc = "ch_awaitUnsupported"]
     ELSE /\ HttpDisconnect
          /\ task' = [T EXCEPT ![t].pc = "hc_afterDisc"]
  /\ mq' = Append(Q, t)
  /\ UNCHANGED connectionType

\* connectHttp lines 89-92, and on to line 102 when serial is not connected.
StartConnectHttp(t, m) ==
  /\ FreeSlot(t)
  /\ nCalls' = nCalls + 1
  /\ nAtt < MaxAttempts
  /\ nAtt' = nAtt + 1
  /\ LET T == [Supersede(task) EXCEPT
                 ![t] = [NewTask("connectHttp") EXCEPT !.a = nAtt + 1, !.mode = m,
                                                        !.live = {}]] IN
     IF serial.isConnected
     THEN /\ task' = [T EXCEPT ![t].pc = "ch_afterSerialDisc"]
          /\ UNCHANGED <<mgrVars, serial, generator, httpVars, mq>>
     ELSE /\ HttpBegin(t, T, mq)
          /\ UNCHANGED serial
  /\ UNCHANGED <<failedSince, cancelled>>
  /\ ret' = NoRet

\* connectHttp resumes after await serial.disconnect().
ChAfterSerialDisc(t) ==
  /\ MacroTurn
  /\ task[t].pc = "ch_afterSerialDisc"
  /\ serial' = SerialDisconnected
  /\ HttpBegin(t, task, mq)
  /\ UNCHANGED <<nAtt, nCalls, failedSince, cancelled>>
  /\ ret' = NoRet

\* http.connect resumes after await disconnect(): lines 72-108.
HcAfterDisc(t) ==
  /\ MicroTurn(t)
  /\ task[t].pc = "hc_afterDisc"
  /\ mq' = Tail(mq)
  /\ HttpCreate(task[t].a, task[t].mode)
  /\ task' = [task EXCEPT ![t].pc = "ch_awaitHttp"]
  /\ UNCHANGED <<mgrVars, serial, generator, nAtt, nCalls, failedSince, cancelled>>
  /\ ret' = NoRet

\* http.connect returned from its unsupported branch without throwing:
\* connectHttp lines 103 and 110.
ChUnsupportedReturn(t) ==
  /\ MicroTurn(t)
  /\ task[t].pc = "ch_awaitUnsupported"
  /\ mq' = Tail(mq)
  /\ connectionType' = "http"
  /\ isConnecting' = FALSE
  /\ task' = [task EXCEPT ![t] = NoTask]
  /\ Returns(task[t], "resolved", "failed")
  /\ UNCHANGED <<error, serial, generator, httpVars, nAtt, nCalls, cancelled>>

\* connectGenerator lines 123-133; ok: generator.start() does not throw.
GeneratorBegin(t, T, ok) ==
  /\ generator' = IF ok THEN GeneratorStarted ELSE generator
  /\ error' = IF ok THEN Null ELSE "Failed to start signal generator"
  /\ connectionType' = IF ok THEN "generator" ELSE Null
  /\ task' = [T EXCEPT ![t] = NoTask]
  /\ Returns(T[t], "resolved", IF ok THEN "ok" ELSE "failed")
  /\ cancelled' = cancelled \cup StillLive(T, t)
  /\ UNCHANGED isConnecting

\* connectGenerator lines 114-121, and on when nothing is awaited.
StartConnectGenerator(t, ok) ==
  /\ FreeSlot(t)
  /\ nCalls' = nCalls + 1
  /\ LET T == [Supersede(task) EXCEPT ![t] = NewTask("connectGenerator")] IN
     IF serial.isConnected
     THEN /\ task' = [T EXCEPT ![t].pc = "cg_afterSerialDisc"]
          /\ UNCHANGED <<mgrVars, generator, httpVars, mq, failedSince, cancelled>>
          /\ ret' = NoRet
     ELSE IF http.isConnected
     THEN /\ HttpDisconnect
          /\ task' = [T EXCEPT ![t].pc = "cg_afterHttpDisc"]
          /\ mq' = Append(mq, t)
          /\ UNCHANGED <<mgrVars, generator, failedSince, cancelled>>
          /\ ret' = NoRet
     ELSE /\ GeneratorBegin(t, T, ok)
          /\ UNCHANGED <<httpVars, mq>>
  /\ UNCHANGED <<serial, nAtt>>

\* connectGenerator resumes after await serial.disconnect().
CgAfterSerialDisc(t, ok) ==
  /\ MacroTurn
  /\ task[t].pc = "cg_afterSerialDisc"
  /\ serial' = SerialDisconnected
  /\ IF task[t].snapH
     THEN /\ HttpDisconnect
          /\ task' = [task EXCEPT ![t].pc = "cg_afterHttpDisc"]
          /\ mq' = Append(mq, t)
          /\ UNCHANGED <<mgrVars, generator, failedSince, cancelled>>
          /\ ret' = NoRet
     ELSE /\ GeneratorBegin(t, task, ok)
          /\ UNCHANGED <<httpVars, mq>>
  /\ UNCHANGED <<nAtt, nCalls>>

\* connectGenerator resumes after await http.disconnect().
CgAfterHttpDisc(t, ok) ==
  /\ MicroTurn(t)
  /\ task[t].pc = "cg_afterHttpDisc"
  /\ mq' = Tail(mq)
  /\ GeneratorBegin(t, task, ok)
  /\ UNCHANGED <<serial, httpVars, nAtt, nCalls>>

\* disconnect line 151: setConnectionType(null), and the call resolves.
DisconnectEnd(t, T) ==
  /\ connectionType' = Null
  /\ task' = [T EXCEPT ![t] = NoTask]
  /\ Returns(T[t], "resolved", "ok")
  /\ cancelled' = cancelled \cup StillLive(T, t)

\* disconnect lines 143-151: generator.stop() and http.disconnect() on the
\* closure's values.
DisconnectRest(t, T, Q) ==
  /\ generator' = IF T[t].snapG THEN GeneratorStopped ELSE generator
  /\ IF T[t].snapH
     THEN /\ HttpDisconnect
          /\ task' = [T EXCEPT ![t].pc = "d_afterHttpDisc"]
          /\ mq' = Append(Q, t)
          /\ ret' = NoRet
          /\ UNCHANGED <<connectionType, failedSince, cancelled>>
     ELSE /\ DisconnectEnd(t, T)
          /\ mq' = Q
          /\ UNCHANGED httpVars

\* disconnect lines 136-141, and on when serial is not connected.
StartDisconnect(t) ==
  /\ FreeSlot(t)
  /\ nCalls' = nCalls + 1
  /\ error' = Null
  /\ LET T == [Overlap(task) EXCEPT ![t] = NewTask("disconnect")] IN
     IF serial.isConnected
     THEN /\ task' = [T EXCEPT ![t].pc = "d_afterSerialDisc"]
          /\ ret' = NoRet
          /\ UNCHANGED <<connectionType, generator, httpVars, mq, failedSince, cancelled>>
     ELSE DisconnectRest(t, T, mq)
  /\ UNCHANGED <<isConnecting, serial, nAtt>>

\* disconnect resumes after await serial.disconnect().
DAfterSerialDisc(t) ==
  /\ MacroTurn
  /\ task[t].pc = "d_afterSerialDisc"
  /\ serial' = SerialDisconnected
  /\ DisconnectRest(t, task, mq)
  /\ UNCHANGED <<isConnecting, error, nAtt, nCalls>>

\* disconnect resumes after await http.disconnect().
DAfterHttpDisc(t) ==
  /\ MicroTurn(t)
  /\ task[t].pc = "d_afterHttpDisc"
  /\ mq' = Tail(mq)
  /\ DisconnectEnd(t, task)
  /\ UNCHANGED <<isConnecting, error, serial, generator, httpVars, nAtt, nCalls>>

\* useHttp write, lines 156-167; send on a socket that is still connecting throws.
HttpWrite ==
  IF ~http.isConnected THEN "NotConnected"
  ELSE IF socketRef # 0
       THEN (IF att[socketRef].sock = "connecting" THEN "http_send_threw" ELSE "http_send")
       ELSE "http_write_not_supported"

\* write without the connectionType tests of lines 161 and 163.
WriteResultAnyType ==
  IF serial.isConnected THEN "serial_write"
  ELSE IF http.isConnected THEN HttpWrite
  ELSE "NotConnected"

\* write, lines 160-168.
WriteResult ==
  IF connectionType = "serial" /\ serial.isConnected THEN "serial_write"
  ELSE IF connectionType = "http" /\ http.isConnected THEN HttpWrite
  ELSE "NotConnected"

Write ==
  /\ lastWrite' = [res |-> WriteResult, afterFail |-> failedSince]
  /\ ret' = NoRet
  /\ lastLine' = 0
  /\ UNCHANGED <<mgrVars, serial, generator, httpVars, nAtt, nCalls, task, mq, failedSince,
                 cancelled, pureVars>>

----------------------------------------------------------------------------

\* One step of a manager call.
Call(t) ==
  \/ StartConnectSerial(t)
  \/ CsAfterHttpDisc(t)
  \/ SerialConnectOk(t)
  \/ SerialConnectFail(t)
  \/ \E m \in {"ws", "fetch"} : StartConnectHttp(t, m)
  \/ ChAfterSerialDisc(t)
  \/ HcAfterDisc(t)
  \/ ChUnsupportedReturn(t)
  \/ \E ok \in BOOLEAN :
       \/ StartConnectGenerator(t, ok)
       \/ CgAfterSerialDisc(t, ok)
       \/ CgAfterHttpDisc(t, ok)
  \/ StartDisconnect(t)
  \/ DAfterSerialDisc(t)
  \/ DAfterHttpDisc(t)

\* One event of a network attempt.
Event(a) ==
  \/ SocketOpen(a)
  \/ SocketFail(a)
  \/ SocketClosed(a)
  \/ Timeout(a)
  \/ PeerClose(a)
  \/ Message(a)
  \/ \E body \in BOOLEAN : FetchResponse(a, body)
  \/ FetchReject(a)
  \/ Chunk(a)
  \/ StreamDone(a)
  \/ ReadFail(a)

Next ==
  /\ lastWrite' = NoWrite
  /\ UNCHANGED pureVars
  /\ \/ \E t \in TaskIds : Call(t) /\ lastLine' = 0
     \/ \E a \in AttIds : Event(a)

Spec == Init /\ [][Next]_vars

\* What the event loop guarantees: a queued continuation runs, an armed timer
\* fires, an aborted fetch rejects, a socket that close() was called on closes.
\* Nothing is promised about the peer or about further calls.
Continuation ==
  /\ lastWrite' = NoWrite
  /\ UNCHANGED pureVars
  /\ lastLine' = 0
  /\ \E t \in TaskIds :
       \/ CsAfterHttpDisc(t)
       \/ HcAfterDisc(t)
       \/ ChUnsupportedReturn(t)
       \/ \E ok \in BOOLEAN : CgAfterHttpDisc(t, ok)
       \/ DAfterHttpDisc(t)
TimerFires(a) == lastWrite' = NoWrite /\ Timeout(a) /\ UNCHANGED pureVars
AbortRejects(a) ==
  lastWrite' = NoWrite /\ att[a].aborted /\ FetchReject(a) /\ UNCHANGED pureVars
CloseCompletes(a) == lastWrite' = NoWrite /\ SocketClosed(a) /\ UNCHANGED pureVars
Fairness ==
  /\ WF_vars(Continuation)
  /\ \A a \in AttIds :
       WF_vars(TimerFires(a)) /\ WF_vars(AbortRejects(a)) /\ WF_vars(CloseCompletes(a))
FairSpec == Init /\ [][Next]_vars /\ Fairness

\* The same program with write() calls.
NextW == Next \/ Write
SpecW == Init /\ [][NextW]_vars

\* The same program with a serial.disconnect() that can reject.  connectHttp
\* awaits it at lines 90-92 and connectGenerator at lines 115-117, both before
\* their try block: the rejection leaves the function at the await, so nothing
\* of lines 94-110 (123-133) runs and the call rejects with the teardown's error.
\* The port is closed or still open afterwards.
SerialDisconnectRejects(t, closed) ==
  /\ MacroTurn
  /\ task[t].pc \in {"ch_afterSerialDisc", "cg_afterSerialDisc"}
  /\ serial' = IF closed THEN SerialDisconnected ELSE serial
  /\ task' = [task EXCEPT ![t] = NoTask]
  /\ ret' = [op |-> task[t].op, how |-> "rejected", res |-> "teardown",
             sup |-> task[t].sup, ovl |-> task[t].ovl,
             prior |-> ConnectedAtCall(task[t]) \ {BackendOf(task[t].op)}]
  /\ failedSince' = TRUE
  /\ UNCHANGED <<mgrVars, generator, httpVars, nAtt, nCalls, mq, cancelled>>

TeardownFails ==
  /\ lastWrite' = NoWrite
  /\ lastLine' = 0
  /\ UNCHANGED pureVars
  /\ \E t \in TaskIds, closed \in BOOLEAN : SerialDisconnectRejects(t, closed)

NextT == Next \/ TeardownFails
SpecT == Init /\ [][NextT]_vars

----------------------------------------------------------------------------
(* The bytes of one network connection: the read loop of useHttp lines     *)
(* 116-136 and the socket's onmessage of lines 86-88, with the text that   *)
(* reaches the line handler.  A byte is "a" (any ASCII character but the   *)
(* two that follow), "LF", "CR", or one of the two bytes "C3" "A9" of a    *)
(* two-byte UTF-8 character.                                               *)

MaxBytes == 5      \* bytes received over a stream
MaxChunk == 2      \* bytes in one chunk
MaxMessages == 2   \* messages received over a socket

Bytes == {"a", "LF", "CR", "C3", "A9"}
Chars == {"a", "LF", "CR", "e9", "FFFD"}

RECURSIVE SeqsUpTo(_, _)
SeqsUpTo(S, n) ==
  IF n = 0 THEN {<<>>}
  ELSE LET R == SeqsUpTo(S, n - 1) IN
       R \cup {Append(q, x) : q \in {r \in R : Len(r) = n - 1}, x \in S}

Chunks == SeqsUpTo(Bytes, MaxChunk) \ {<<>>}
Messages == SeqsUpTo({"a", "LF", "CR"}, MaxChunk)

\* textDecoder.decode(value, { stream: true }), line 128, one byte at a time:
\* d is the decoder, holding a lead byte (pending) or not, and the text so far.
DecodeByte(d, b) ==
  IF d.pending
  THEN IF b = "A9" THEN [pending |-> FALSE, text |-> Append(d.text, "e9")]
       ELSE IF b = "C3" THEN [pending |-> TRUE, text |-> Append(d.text, "FFFD")]
       ELSE [pending |-> FALSE, text |-> d.text \o <<"FFFD", b>>]
  ELSE IF b = "C3" THEN [pending |-> TRUE, text |-> d.text]
       ELSE IF b = "A9" THEN [pending |-> FALSE, text |-> Append(d.text, "FFFD")]
       ELSE [pending |-> FALSE, text |-> Append(d.text, b)]

RECURSIVE Decode(_, _)
Decode(d, bytes) ==
  IF bytes = <<>> THEN d ELSE Decode(DecodeByte(d, Head(bytes)), Tail(bytes))

\* line.replace(/\r$/, ''), written without the replacement.
KeepCR(line) == line

\* line.replace(/\r$/, ''), line 131.
StripCR(line) ==
  IF line # <<>> /\ line[Len(line)] = "CR" THEN SubSeq(line, 1, Len(line) - 1) ELSE line

\* buffer.indexOf('\n'), 1-based; 0 when there is none.
IndexOfLF(buffer) ==
  IF \E i \in 1..Len(buffer) : buffer[i] = "LF"
  THEN CHOOSE i \in 1..Len(buffer) :
         buffer[i] = "LF" /\ \A j \in 1..(i - 1) : buffer[j] # "LF"
  ELSE 0

\* The while loop of lines 130-134: the lines handed on and the buffer left.
RECURSIVE SplitLines(_, _)
SplitLines(buffer, lines) ==
  LET index == IndexOfLF(buffer) IN
  IF index = 0 THEN [buffer |-> buffer, lines |-> lines]
  ELSE SplitLines(SubSeq(buffer, index + 1, Len(buffer)),
                  Append(lines, StripCR(SubSeq(buffer, 1, index - 1))))

\* reader.read() yields the chunk value: lines 124-135.
ReadChunk(value) ==
  /\ rd.mode = "fetch"
  /\ Len(rd.received) + Len(value) <= MaxBytes
  /\ LET d == Decode([pending |-> rd.pending, text |-> <<>>], value)
         s == SplitLines(rd.buffer \o d.text, <<>>) IN
     rd' = [rd EXCEPT !.received = @ \o value, !.pending = d.pending,
                      !.buffer = s.buffer, !.sink = @ \o s.lines]

\* socket.onmessage, lines 86-88: event.data goes to the handler as it is.
SocketData(data) ==
  /\ rd.mode = "ws"
  /\ Len(rd.sink) < MaxMessages
  /\ rd' = [rd EXCEPT !.sink = Append(@, data)]

InitRead ==
  /\ InitConnection
  /\ \E m \in {"ws", "fetch"} : rd = [NoRead EXCEPT !.mode = m]
  /\ cobs = NoFrame
  /\ chart = NoChart
  /\ dec = NoLoop
NextRead ==
  /\ \/ \E value \in Chunks : ReadChunk(value)
     \/ \E data \in Messages : SocketData(data)
  /\ UNCHANGED <<connVars, cobs, chart, dec>>
SpecRead == InitRead /\ [][NextRead]_vars

----------------------------------------------------------------------------
(* decodeCOBS, cobsDecoder.ts lines 9-32, and the COBS encoder it undoes.  *)
(* Sequences are 1-based: data[i + 1] here is data[i] there.               *)

MaxBlock == 255    \* 0xFF
MaxEdge == 1       \* bytes before and after the long run of a payload
MaxFrame == 4      \* bytes of a short frame

Min(x, y) == IF x < y THEN x ELSE y
Run(n) == [k \in 1..n |-> 7]

\* Payloads: a run of non-zero bytes around the block boundary, between short
\* stretches of arbitrary bytes.
RunLengths == {0, 1} \cup (MaxBlock - 3)..(MaxBlock + 1) \cup {2 * MaxBlock - 2}
Payloads ==
  {p \o Run(n) \o t : p \in SeqsUpTo({0, 1, 255}, MaxEdge), n \in RunLengths,
                      t \in SeqsUpTo({0, 1, 255}, MaxEdge)}
\* Frames: every short byte sequence, and frames opening with the code 0xFF.
Frames ==
  SeqsUpTo({0, 1, 2, 3, 255}, MaxFrame) \cup
  {<<MaxBlock>> \o Run(n) \o t : n \in (MaxBlock - 3)..(MaxBlock - 1),
                                 t \in SeqsUpTo({0, 1, 2}, 2)}

\* COBS encoding: each zero-free block goes out behind its length + 1; a block
\* of 254 bytes goes out behind 0xFF and stands for no zero.  trailing: the
\* encoder closes a final full block with the code 1 (both forms are in use).
RECURSIVE EncodeFrom(_, _, _, _)
EncodeFrom(b, i, out, trailing) ==
  LET zeros == {j \in (i + 1)..Len(b) : b[j] = 0}
      end == IF zeros = {} THEN Len(b)
             ELSE (CHOOSE j \in zeros : \A k \in zeros : j <= k) - 1
  IN IF end - i >= MaxBlock - 1
     THEN LET full == out \o <<MaxBlock>> \o SubSeq(b, i + 1, i + MaxBlock - 1) IN
          IF i + MaxBlock - 1 = Len(b)
          THEN (IF trailing THEN Append(full, 1) ELSE full)
          ELSE EncodeFrom(b, i + MaxBlock - 1, full, trailing)
     ELSE LET part == out \o <<end - i + 1>> \o SubSeq(b, i + 1, end) IN
          IF zeros = {} THEN part ELSE EncodeFrom(b, end + 1, part, trailing)
encodeCOBS(b, trailing) == EncodeFrom(b, 0, <<>>, trailing)

\* Line 15 without its first test: a code of 0 is taken as a block.
InvalidCodeZeroAllowed(code, i, n) == i + code > n + 1
\* Line 15 with the block end allowed up to the input length only.
InvalidCodeStrict(code, i, n) == code = 0 \/ i + code > n
\* Line 15: code === 0 || i + code > data.length + 1.
InvalidCode(code, i, n) == code = 0 \/ i + code > n + 1

\* Lines 20-22: the bytes data[j], i + 1 <= j < nextBlockEnd and j < data.length.
Copied(data, i, nextBlockEnd) ==
  [k \in 1..(Min(nextBlockEnd, Len(data)) - (i + 1)) |-> data[i + 1 + k]]

\* Line 24 without the test code < 0xFF.
RestoredZeroAnyCode(code, nextBlockEnd, n) == IF nextBlockEnd < n THEN <<0>> ELSE <<>>
\* Line 24 with the block end allowed to be the input's end.
RestoredZeroAtEnd(code, nextBlockEnd, n) ==
  IF code < MaxBlock /\ nextBlockEnd <= n THEN <<0>> ELSE <<>>
\* Lines 24-26: if (code < 0xFF && nextBlockEnd < data.length) output.push(0x00).
RestoredZero(code, nextBlockEnd, n) ==
  IF code < MaxBlock /\ nextBlockEnd < n THEN <<0>> ELSE <<>>

\* The while loop of lines 13-29, from offset i with the output so far.
RECURSIVE DecodeLoop(_, _, _)
DecodeLoop(data, i, output) ==
  IF ~(i < Len(data)) THEN [thrown |-> FALSE, output |-> output]
  ELSE LET code == data[i + 1] IN
       IF InvalidCode(code, i, Len(data)) THEN [thrown |-> TRUE, output |-> output]
       ELSE LET nextBlockEnd == i + code IN
            DecodeLoop(data, nextBlockEnd,
                       output \o Copied(data, i, nextBlockEnd)
                              \o RestoredZero(code, nextBlockEnd, Len(data)))

\* What the caller gets: the output (line 31), or nothing when line 16 threw.
Outcome(r) == [thrown |-> r.thrown, value |-> IF r.thrown THEN <<>> ELSE r.output]

decodeCOBS(data) == Outcome(DecodeLoop(data, 0, <<>>))

CobsEncode(trailing) ==
  /\ cobs.stage = "payload"
  /\ cobs' = [cobs EXCEPT !.stage = "frame", !.data = encodeCOBS(cobs.b, trailing)]
CobsDecode ==
  /\ cobs.stage = "frame"
  /\ cobs' = [cobs EXCEPT !.stage = "done", !.res = decodeCOBS(cobs.data)]

InitCobs ==
  /\ InitConnection
  /\ rd = NoRead
  /\ chart = NoChart
  /\ dec = NoLoop
  /\ \/ \E b \in Payloads : cobs = [NoFrame EXCEPT !.stage = "payload", !.src = "payload", !.b = b]
     \/ \E data \in Frames : cobs = [NoFrame EXCEPT !.stage = "frame", !.src = "frame", !.data = data]
NextCobs ==
  /\ \/ \E trailing \in BOOLEAN : CobsEncode(trailing)
     \/ CobsDecode
  /\ UNCHANGED <<connVars, rd, chart, dec>>
SpecCobs == InitCobs /\ [][NextCobs]_vars

\* The same loop, one iteration at a time.  decodeCOBS(data) is called: lines 10-11.
LoopCalled(data) == [stage |-> "loop", data |-> data, i |-> 0, output |-> <<>>]

\* One pass through lines 14-28, entered because i < data.length (line 13).
LoopIteration ==
  /\ dec.stage = "loop"
  /\ dec.i < Len(dec.data)
  /\ LET code == dec.data[dec.i + 1] IN
     IF InvalidCode(code, dec.i, Len(dec.data))
     THEN dec' = [dec EXCEPT !.stage = "thrown"]
     ELSE LET nextBlockEnd == dec.i + code IN
          dec' = [dec EXCEPT
                    !.output = dec.output \o Copied(dec.data, dec.i, nextBlockEnd)
                               \o RestoredZero(code, nextBlockEnd, Len(dec.data)),
                    !.i = nextBlockEnd]

\* The test of line 13 fails: line 31 returns the output.
LoopExit ==
  /\ dec.stage = "loop"
  /\ ~(dec.i < Len(dec.data))
  /\ dec' = [dec EXCEPT !.stage = "returned"]

InitLoop ==
  /\ InitConnection
  /\ rd = NoRead
  /\ cobs = NoFrame
  /\ chart = NoChart
  /\ \E data \in Frames : dec = LoopCalled(data)
NextLoop ==
  /\ LoopIteration \/ LoopExit
  /\ UNCHANGED <<connVars, rd, cobs, chart>>
SpecLoop == InitLoop /\ [][NextLoop]_vars
\* The loop is synchronous code: once entered it runs on.
FairSpecLoop == SpecLoop /\ WF_vars(NextLoop)

----------------------------------------------------------------------------
(* chartExport.ts, and the ring store it reads.  A number is a record: fin  *)
(* says whether Number.isFinite holds of it, v is its value.  A text is a   *)
(* sequence of characters, "LF" being the line feed.  Timestamps are        *)
(* milliseconds within the first minute of the epoch, where toISOString is  *)
(* "1970-01-01T00:00:" followed by the seconds and the milliseconds.        *)
(* Sequences are 1-based: times[ringIndex + 1] here is times[ringIndex]     *)
(* there.                                                                   *)

MaxCapacity == 2   \* capacities of the store
MaxAppends == 3    \* samples appended to one store

NaN == [fin |-> FALSE, v |-> 0]
Num(n) == [fin |-> TRUE, v |-> n]
isFinite(x) == x.fin

\* The series names a stream can show, in the order a sample lists them.
NameSeq == << <<"a">>, <<"b">>, <<"c", ",", "d">> >>
Names == {NameSeq[i] : i \in 1..Len(NameSeq)}
\* The series that have a value in one sample: none, one, or the first two.
SampleSets == {S \in SUBSET Names : Cardinality(S) <= 1} \cup {{NameSeq[1], NameSeq[2]}}
\* The timestamp and the values of the n-th sample appended.
Clock(n) == 1500 + 250 * n
SampleOf(n, nm) == 10 * n + (CHOOSE i \in 1..Len(NameSeq) : NameSeq[i] = nm)

\* new RingStore(C)
EmptyStore(C) ==
  [capacity |-> C, writeIndex |-> 0, series |-> <<>>, times |-> [i \in 1..C |-> NaN],
   buffers |-> <<>>, firstTimestamp |-> [set |-> FALSE, v |-> 0]]

\* store.append(timestamp, values): a series seen for the first time is created
\* with every slot holding the no-sample marker; every series gets its value, or
\* the marker, at index W mod C; the timestamp goes to the same index;
\* firstTimestamp is set once; W grows by one.
append(store, timestamp, S) ==
  LET known == {store.series[j] : j \in 1..Len(store.series)}
      IsNew(nm) == nm \in S /\ nm \notin known
      series == store.series \o SelectSeq(NameSeq, IsNew)
      n == store.writeIndex + 1
      slot == (store.writeIndex % store.capacity) + 1
      Before(j) == IF j <= Len(store.series) THEN store.buffers[j]
                   ELSE [i \in 1..store.capacity |-> NaN]
  IN [store EXCEPT
        !.series = series,
        !.buffers = [j \in 1..Len(series) |->
                       [Before(j) EXCEPT ![slot] = IF series[j] \in S
                                                   THEN Num(SampleOf(n, series[j]))
                                                   ELSE NaN]],
        !.times = [store.times EXCEPT ![slot] = Num(timestamp)],
        !.firstTimestamp = IF store.firstTimestamp.set THEN store.firstTimestamp
                           ELSE [set |-> TRUE, v |-> timestamp],
        !.writeIndex = n]

\* The snapshot of the logical positions lo..hi that are still in the store.
Snapshot(store, lo, hi) ==
  LET validStart == IF store.writeIndex > store.capacity
                    THEN store.writeIndex - store.capacity ELSE 0
      start == IF lo > validStart THEN lo ELSE validStart
      end == IF hi < store.writeIndex - 1 THEN hi ELSE store.writeIndex - 1
      At(k) == ((start + k - 1) % store.capacity) + 1
  IN [series |-> store.series,
      times |-> [k \in 1..(end - start + 1) |-> store.times[At(k)]],
      data |-> [j \in 1..Len(store.series) |->
                  [k \in 1..(end - start + 1) |-> store.buffers[j][At(k)]]],
      firstTimestamp |-> store.firstTimestamp]

DigitChar == <<"0", "1", "2", "3", "4", "5", "6", "7", "8", "9">>
\* Number.prototype.toString of a non-negative integer.
RECURSIVE toString(_)
toString(n) ==
  IF n < 10 THEN <<DigitChar[n + 1]>>
  ELSE toString(n \div 10) \o <<DigitChar[(n % 10) + 1]>>
\* n in w digits, zero-padded.
RECURSIVE Padded(_, _)
Padded(n, w) ==
  IF w = 0 THEN <<>> ELSE Padded(n \div 10, w - 1) \o <<DigitChar[(n % 10) + 1]>>
\* new Date(timestamp).toISOString(), for a timestamp of the epoch's first minute.
toISOString(timestamp) ==
  <<"1", "9", "7", "0", "-", "0", "1", "-", "0", "1", "T", "0", "0", ":", "0", "0", ":">>
  \o Padded(timestamp \div 1000, 2) \o <<".">> \o Padded(timestamp % 1000, 3) \o <<"Z">>
\* (relativeMs / 1000).toFixed(3), for a non-negative integer relativeMs.
toFixed3(relativeMs) ==
  toString(relativeMs \div 1000) \o <<".">> \o Padded(relativeMs % 1000, 3)

\* formatChartTimestamp, lines 13-26.  baseTime is set or undefined.
formatChartTimestamp(timestamp, format, baseTime) ==
  CASE format = "iso" -> toISOString(timestamp)
    [] format = "relative" ->
         toFixed3(IF baseTime.set /\ baseTime.v # 0 THEN timestamp - baseTime.v
                  ELSE timestamp)
    [] OTHER -> toString(timestamp)

TimeFormats == {"iso", "relative", "timestamp", "undefined"}
Options == [includeTimestamps : BOOLEAN, timeFormat : TimeFormats]
\* options.timeFormat || 'iso'
FormatOrIso(options) ==
  IF options.timeFormat = "undefined" THEN "iso" ELSE options.timeFormat
\* Lines 49 and 108.
BaseTime(options, firstTimestamp) ==
  IF options.timeFormat = "relative" THEN firstTimestamp ELSE [set |-> FALSE, v |-> 0]

\* Array.prototype.join
RECURSIVE Join(_, _)
Join(parts, sep) ==
  IF Len(parts) = 0 THEN <<>>
  ELSE IF Len(parts) = 1 THEN parts[1]
  ELSE parts[1] \o <<sep>> \o Join(Tail(parts), sep)

NoDataAvailable ==
  <<"N", "o", " ", "d", "a", "t", "a", " ", "a", "v", "a", "i", "l", "a", "b", "l", "e">>
\* Lines 40-44 and 86-90.
Headers(series, options) ==
  (IF options.includeTimestamps
   THEN << <<"T", "i", "m", "e", "s", "t", "a", "m", "p">> >> ELSE <<>>) \o series
\* Lines 56-60 and 116-123.
TimestampCell(timestamp, options, baseTime) ==
  IF ~options.includeTimestamps THEN <<>>
  ELSE IF isFinite(timestamp)
  THEN <<formatChartTimestamp(timestamp.v, FormatOrIso(options), baseTime)>>
  ELSE << <<>> >>
\* Lines 66 and 128.
ValueCell(value) == IF isFinite(value) THEN toString(value.v) ELSE <<>>

\* Lines 104 and 158: the export starts at position 0 whatever was evicted.
StartIndexFromZero(writeIndex, capacity) == 0
\* Lines 104 and 158.
StartIndex(writeIndex, capacity) ==
  IF writeIndex > capacity THEN writeIndex - capacity ELSE 0

\* Lines 35-37.
NothingToExport(series, times) == Len(series) = 0 \/ Len(times) = 0

exportVisibleChartDataAsCsv(snapshot, options) ==
  LET series == snapshot.series
      times == snapshot.times
      baseTime == BaseTime(options, snapshot.firstTimestamp)
      Value(j, i) == IF i <= Len(snapshot.data[j]) THEN snapshot.data[j][i] ELSE NaN
      Row(i) == TimestampCell(times[i], options, baseTime)
                \o [j \in 1..Len(series) |-> ValueCell(Value(j, i))]
  IN IF NothingToExport(series, times) THEN NoDataAvailable
     ELSE Join(<<Join(Headers(series, options), ",")>>
               \o [i \in 1..Len(times) |-> Join(Row(i), ",")], "LF")

exportAllChartDataAsCsv(store, options) ==
  LET series == store.series
      capacity == store.capacity
      writeIndex == store.writeIndex
      totalSamples == Min(writeIndex, capacity)
      startIndex == StartIndex(writeIndex, capacity)
      endIndex == writeIndex - 1
      baseTime == BaseTime(options, store.firstTimestamp)
      Row(i) == LET ringIndex == i % capacity IN
                TimestampCell(store.times[ringIndex + 1], options, baseTime)
                \o [j \in 1..Len(series) |-> ValueCell(store.buffers[j][ringIndex + 1])]
  IN IF Len(series) = 0 THEN NoDataAvailable
     ELSE IF totalSamples = 0 THEN Join(<<Join(Headers(series, options), ",")>>, "LF")
     ELSE Join(<<Join(Headers(series, options), ",")>>
               \o [k \in 1..(endIndex - startIndex + 1) |->
                     Join(Row(startIndex + k - 1), ",")], "LF")

\* The header fields and the samples of the file; a thrown error leaves none.
exportAllChartDataAsWav(store) ==
  LET capacity == store.capacity
      writeIndex == store.writeIndex
      totalSamples == Min(writeIndex, capacity)
      numChannels == Len(store.series)
      startIndex == StartIndex(writeIndex, capacity)
      endIndex == writeIndex - 1
      numFrames == endIndex - startIndex + 1
      Interleaved(q) ==
        LET i == startIndex + ((q - 1) \div numChannels)
            value == store.buffers[((q - 1) % numChannels) + 1][(i % capacity) + 1]
        IN IF isFinite(value) THEN value.v ELSE 0
  IN IF numChannels = 0 \/ totalSamples = 0
     THEN [thrown |-> TRUE, wav |-> NoOut.wav]
     ELSE [thrown |-> FALSE,
           wav |-> [numChannels |-> numChannels, sampleRate |-> 8000,
                    dataSize |-> numFrames * numChannels * 4,
                    samples |-> [q \in 1..(numFrames * numChannels) |-> Interleaved(q)]]]

\* The sink appends one sample, with values for the series of S.
ChartAppend(S) ==
  /\ chart.store.writeIndex < MaxAppends
  /\ Len(chart.store.series) > 0 \/ S # {}
  /\ LET n == chart.store.writeIndex + 1 IN
     chart' = [store |-> append(chart.store, Clock(n), S),
               log |-> Append(chart.log, [timestamp |-> Clock(n), S |-> S]),
               out |-> NoOut]

\* exportChartData, scope 'visible', format 'csv': lines 241-242.
ExportVisibleCsv(lo, hi, options) ==
  /\ chart.out.kind = "none"
  /\ chart' = [chart EXCEPT
       !.out = [NoOut EXCEPT
                  !.kind = "visible", !.options = options, !.lo = lo, !.hi = hi,
                  !.text = exportVisibleChartDataAsCsv(Snapshot(chart.store, lo, hi),
                                                       options)]]

\* exportChartData, scope 'all', format 'csv': lines 243-244.
ExportAllCsv(options) ==
  /\ chart.out.kind = "none"
  /\ chart' = [chart EXCEPT
       !.out = [NoOut EXCEPT
                  !.kind = "all", !.options = options, !.lo = 0,
                  !.hi = chart.store.writeIndex - 1,
                  !.text = exportAllChartDataAsCsv(chart.store, options)]]

\* exportChartData, scope 'all', format 'wav': line 255.
ExportAllWav ==
  /\ chart.out.kind = "none"
  /\ LET r == exportAllChartDataAsWav(chart.store) IN
     chart' = [chart EXCEPT
       !.out = [NoOut EXCEPT !.kind = "wav", !.lo = 0, !.hi = chart.store.writeIndex - 1,
                             !.thrown = r.thrown, !.wav = r.wav]]

InitChart ==
  /\ InitConnection
  /\ rd = NoRead
  /\ cobs = NoFrame
  /\ dec = NoLoop
  /\ \E C \in 1..MaxCapacity : chart = [NoChart EXCEPT !.store = EmptyStore(C)]
NextChart ==
  /\ \/ \E S \in SampleSets : ChartAppend(S)
     \/ \E lo \in 0..(MaxAppends - 1), hi \in 0..(MaxAppends - 1), options \in Options :
          lo <= hi /\ ExportVisibleCsv(lo, hi, options)
     \/ \E options \in Options : ExportAllCsv(options)
     \/ ExportAllWav
  /\ UNCHANGED <<connVars, rd, cobs, dec>>
SpecChart == InitChart /\ [][NextChart]_vars

----------------------------------------------------------------------------
(* Claims.                                                                 *)

SerialActive == serial.isConnecting \/ serial.isConnected
HttpActive == http.isConnecting \/ http.isConnected
GeneratorActive == generator.isRunning
ActiveBackends ==
  (IF SerialActive THEN {"serial"} ELSE {}) \cup
  (IF HttpActive THEN {"http"} ELSE {}) \cup
  (IF GeneratorActive THEN {"generator"} ELSE {})

Connected(b) ==
  CASE b = "serial" -> serial.isConnected
    [] b = "http" -> http.isConnected
    [] b = "generator" -> generator.isRunning
    [] OTHER -> FALSE

Idle == connectionType = Null /\ ~StateIsConnecting /\ ~StateIsConnected

\* C1: at every instant at most one of the three backends is connecting or
\* connected, whatever the interleaving of connect and disconnect calls.
C1_AtMostOneBackendActive == Cardinality(ActiveBackends) <= 1

\* C2: a connect to backend B made while another backend A was connected, and
\* whose connection is established, returns with A disconnected, B connected
\* and state.type = B.
C2_SwitchLeavesOnlyB ==
  (ret.op \in ConnectOps /\ ret.res = "ok" /\ ret.prior # {})
  => /\ \A b \in ret.prior : ~Connected(b)
     /\ Connected(BackendOf(ret.op))
     /\ connectionType = BackendOf(ret.op)

\* The same for the calls that no other call overlapped.
SwitchLeavesOnlyB_Sequential == ret.ovl \/ C2_SwitchLeavesOnlyB

\* C3: a connect call whose backend's attempt failed rejects to its caller,
\* with the failure recorded as state.error and the manager Idle.
C3_FailedConnectRejectsToIdle ==
  (ret.op \in ConnectOps /\ ret.res = "failed")
  => /\ ret.how = "rejected"
     /\ StateError # Null
     /\ Idle

C5_DisconnectEndsIdle ==
  (ret.op = "disconnect" /\ ~ret.sup) => (ret.how = "resolved" /\ Idle)

\* The visible state: isConnecting, isConnected, error, type.
Visible == <<StateIsConnecting, StateIsConnected, StateError, StateType>>

\* C6: the return of a connect call that a later connect call superseded
\* changes none of isConnecting, isConnected, error and type.
C6_SupersededResultDiscarded ==
  [][(ret'.op \in ConnectOps /\ ret'.sup) => Visible' = Visible]_vars

\* C7: no line reaches the handler from a connection that was delivering when
\* disconnect, or connect to another backend, was called.
C7_NoLineAfterCancel == lastLine \notin cancelled

\* C8: every network attempt waiting for its peer eventually stops waiting,
\* in the socket sub-mode and in the streaming sub-mode.
C8_AttemptLeavesConnecting ==
  \A a \in AttIds : (att[a].wait = "pending") ~> (att[a].wait # "pending")

\* The same for the socket sub-mode alone, where line 103 arms a timer.
SocketAttemptLeavesConnecting ==
  \A a \in AttIds :
    (att[a].mode = "ws" /\ att[a].wait = "pending") ~> (att[a].wait # "pending")

\* Call t starts its backend's connection attempt in this step.
AttemptBegins(t) ==
  \/ task[t].pc # "cs_awaitSerial" /\ task'[t].pc = "cs_awaitSerial"
  \/ task[t].pc # "ch_awaitHttp" /\ task'[t].pc = "ch_awaitHttp"

\* C9: at the start of a connection attempt state.error is null.
C9_ErrorNullAtAttemptStart ==
  [][(\E t \in TaskIds : AttemptBegins(t)) => StateError' = Null]_vars

\* Attempt a is the one http.state.isConnected stands for.
Current(a) ==
  /\ http.isConnected
  /\ \/ att[a].mode = "ws" /\ socketRef = a
     \/ att[a].mode = "fetch" /\ abortControllerRef = a

\* C10: when the connected transport stops (peer closes the socket, the stream
\* ends, a read fails) the state becomes not connected and records an error.
C10_MidSessionStopRecorded ==
  [][\A a \in AttIds :
       (Current(a) /\ (PeerClose(a) \/ StreamDone(a) \/ ReadFail(a)))
       => (~http'.isConnected /\ http'.error # Null)]_vars

\* The text of the bytes b, decoded in one piece.
TextOf(b) == Decode([pending |-> FALSE, text |-> <<>>], b).text
\* The positions of the line feeds of text, and the k-th of them.
LFs(text) == {i \in 1..Len(text) : text[i] = "LF"}
NthLF(text, k) == CHOOSE i \in LFs(text) : Cardinality({j \in LFs(text) : j <= i}) = k
\* The k-th record of text: what stands between the line feed before and its own.
Record(text, k) ==
  LET to == NthLF(text, k)
      from == IF k = 1 THEN 1 ELSE NthLF(text, k - 1) + 1
      r == SubSeq(text, from, to - 1) IN
  IF r # <<>> /\ r[Len(r)] = "CR" THEN SubSeq(r, 1, Len(r) - 1) ELSE r
\* What follows the last line feed of text.
AfterLastLF(text) ==
  SubSeq(text, (IF LFs(text) = {} THEN 0 ELSE NthLF(text, Cardinality(LFs(text)))) + 1,
         Len(text))

\* C11: the lines a streaming read has handed on are the LF-terminated records
\* of the bytes received so far, in order, each less one trailing CR, however
\* the bytes came in chunks; what follows the last LF is held in the buffer.
C11_LinesDependOnBytesOnly ==
  rd.mode = "fetch"
  => LET text == TextOf(rd.received) IN
     /\ rd.sink = [k \in 1..Cardinality(LFs(text)) |-> Record(text, k)]
     /\ rd.buffer = AfterLastLF(text)

\* Two lines handed on, a CR stripped, and a partial line held back.
C11_TwoLinesAndHeldBack ==
  /\ rd.mode = "fetch"
  /\ Len(rd.sink) = 2
  /\ rd.buffer # <<>>
  /\ \E i \in 1..(Len(rd.received) - 1) :
       rd.received[i] = "CR" /\ rd.received[i + 1] = "LF"

\* C12: every line handed to the handler, from a socket or from a stream, holds
\* no line feed and does not end with a carriage return.
C12_SinkLinesAreSingleLines ==
  \A k \in 1..Len(rd.sink) :
    /\ \A i \in 1..Len(rd.sink[k]) : rd.sink[k][i] # "LF"
    /\ rd.sink[k] = <<>> \/ rd.sink[k][Len(rd.sink[k])] # "CR"

\* The same for the lines of a streaming read, carriage returns aside.
StreamLinesHoldNoLF ==
  rd.mode = "fetch" =>
    \A k \in 1..Len(rd.sink) : \A i \in 1..Len(rd.sink[k]) : rd.sink[k][i] # "LF"

\* C13: decoding the COBS encoding of a payload gives the payload back.
C13_RoundTrip ==
  (cobs.stage = "done" /\ cobs.src = "payload")
  => cobs.res = [thrown |-> FALSE, value |-> cobs.b]

\* A payload of more than one full block that came back.
C13_LongPayloadCameBack ==
  /\ cobs.stage = "done" /\ cobs.src = "payload"
  /\ Len(cobs.b) > MaxBlock
  /\ \E i \in 1..Len(cobs.b) : cobs.b[i] = 0
  /\ cobs.res.value = cobs.b

\* The offsets at which decodeCOBS reads a length code in data, from offset i on.
RECURSIVE CodeOffsets(_, _)
CodeOffsets(data, i) ==
  IF i >= Len(data) THEN <<>>
  ELSE IF data[i + 1] = 0 THEN <<i>>
  ELSE <<i>> \o CodeOffsets(data, i + data[i + 1])
\* The code read at offset i is 0, or its block would end past the input length + 1.
BadCodeAt(data, i) == data[i + 1] = 0 \/ i + data[i + 1] > Len(data) + 1
Malformed(data) ==
  LET o == CodeOffsets(data, 0) IN \E k \in 1..Len(o) : BadCodeAt(data, o[k])

\* C14: decodeCOBS throws exactly when a length code it reads is 0 or points
\* past the input length + 1, and then it returns no output.
C14_FramingError ==
  cobs.stage = "done"
  => /\ cobs.res.thrown <=> Malformed(cobs.data)
     /\ cobs.res.thrown => cobs.res.value = <<>>

\* A frame refused at its second block, after a first block was decoded.
C14_RefusedAfterFirstBlock ==
  /\ cobs.stage = "done"
  /\ cobs.res.thrown
  /\ Len(cobs.data) >= 3
  /\ ~BadCodeAt(cobs.data, 0)
  /\ cobs.data[2] # 0

\* The block read at offset i: the bytes after its code, and the zero restored
\* behind it when its code is below 0xFF and more input follows.
BlockBytes(data, i) ==
  LET n == data[i + 1]
      last == IF i + n - 1 < Len(data) THEN i + n - 1 ELSE Len(data) - 1 IN
  [k \in 1..(last - i) |-> data[i + 1 + k]]
ZeroFollows(data, i) == data[i + 1] < MaxBlock /\ i + data[i + 1] < Len(data)
RECURSIVE Blocks(_, _, _)
Blocks(data, o, k) ==
  IF k > Len(o) THEN <<>>
  ELSE BlockBytes(data, o[k]) \o (IF ZeroFollows(data, o[k]) THEN <<0>> ELSE <<>>)
       \o Blocks(data, o, k + 1)

\* C19: without error, the output is, block after block, the n-1 bytes behind
\* each code n (fewer at the end of the input), with a zero behind a block
\* exactly when n < 0xFF and the block ends before the input does.
C19_BlocksAndRestoredZeros ==
  (cobs.stage = "done" /\ ~cobs.res.thrown)
  => cobs.res.value = Blocks(cobs.data, CodeOffsets(cobs.data, 0), 1)

\* A frame decoded with a 0xFF block followed by more input, a block of code 1
\* followed by more input, and a last block.
C19_FullBlockThenEmptyBlock ==
  /\ cobs.stage = "done" /\ ~cobs.res.thrown
  /\ Len(cobs.data) = MaxBlock + 2
  /\ cobs.data[1] = MaxBlock
  /\ cobs.data[MaxBlock + 1] = 1
  /\ cobs.res.value = Run(MaxBlock - 1) \o <<0>>

\* C20: the visible record is self-consistent in every state: when
\* state.isConnected holds, state.type is non-null and names the backend that is
\* connected; when state.type is null, state.isConnected is false.
C20_VisibleRecordConsistent ==
  /\ StateIsConnected => (StateType # Null /\ Connected(StateType))
  /\ StateType = Null => ~StateIsConnected

\* C18: a failure of the teardown that precedes a connect is swallowed: no
\* connect call is rejected with the teardown's error, the call goes on to
\* connect the chosen backend.
C18_TeardownFailureSwallowed == ~(ret.op \in ConnectOps /\ ret.res = "teardown")

\* The fields of a text between the separators sep.
RECURSIVE SplitOn(_, _)
SplitOn(text, sep) ==
  LET at == {i \in 1..Len(text) : text[i] = sep} IN
  IF at = {} THEN <<text>>
  ELSE LET i == CHOOSE i \in at : \A k \in at : i <= k IN
       <<SubSeq(text, 1, i - 1)>> \o SplitOn(SubSeq(text, i + 1, Len(text)), sep)

Appended == chart.store.writeIndex
\* The appends evicted so far, and the samples still held.
Evicted == IF Appended > chart.store.capacity THEN Appended - chart.store.capacity ELSE 0
Held == IF Appended < chart.store.capacity THEN Appended ELSE chart.store.capacity
\* The fields of the row of the n-th append, from what was appended.
AppendedTime(n, options) ==
  IF ~options.includeTimestamps THEN <<>>
  ELSE IF options.timeFormat = "relative"
  THEN <<toFixed3(chart.log[n].timestamp - chart.log[1].timestamp)>>
  ELSE IF options.timeFormat = "timestamp" THEN <<toString(chart.log[n].timestamp)>>
  ELSE <<toISOString(chart.log[n].timestamp)>>
AppendedRow(n, options) ==
  AppendedTime(n, options)
  \o [j \in 1..Len(chart.store.series) |->
        IF chart.store.series[j] \in chart.log[n].S
        THEN toString(SampleOf(n, chart.store.series[j])) ELSE <<>>]
DataRows(text) == Tail(SplitOn(text, "LF"))

\* C15: after W >= 1 appends to a store of capacity C, the export of the full
\* store, CSV or WAV, holds min(W, C) samples: the appends W-C+1 .. W (all of
\* them while W <= C), oldest first, each with the values that were appended;
\* a relative timestamp is the time since the very first append.
C15_FullRangeExport ==
  Appended >= 1 =>
    /\ chart.out.kind = "all" =>
         /\ Len(DataRows(chart.out.text)) = Held
         /\ \A k \in 1..Held :
              SplitOn(DataRows(chart.out.text)[k], ",")
                = AppendedRow(Evicted + k, chart.out.options)
    /\ chart.out.kind = "wav" =>
         LET numChannels == Len(chart.store.series) IN
         /\ ~chart.out.thrown
         /\ Len(chart.out.wav.samples) = Held * numChannels
         /\ \A k \in 1..Held, j \in 1..numChannels :
              chart.out.wav.samples[(k - 1) * numChannels + j]
                = IF chart.store.series[j] \in chart.log[Evicted + k].S
                  THEN SampleOf(Evicted + k, chart.store.series[j]) ELSE 0

\* One append was evicted, and the first row exported is 0.250 s after the
\* first append.
C15_FirstRowAfterEviction ==
  /\ chart.out.kind = "all"
  /\ chart.out.options = [includeTimestamps |-> TRUE, timeFormat |-> "relative"]
  /\ Evicted = 1
  /\ SplitOn(DataRows(chart.out.text)[1], ",")[1] = <<"0", ".", "2", "5", "0">>

\* The samples the export in chart.out was made of.
Exported == Snapshot(chart.store, chart.out.lo, chart.out.hi)

\* C16: a CSV export of a store with at least one series, of a viewport or of
\* the full store, is one header row (Timestamp if asked for, then the series
\* names in insertion order) followed by one row per sample, and the header row
\* alone when there is no sample.
C16_HeaderRowThenOneRowPerSample ==
  (chart.out.kind \in {"visible", "all"} /\ Len(chart.store.series) > 0) =>
    LET lines == SplitOn(chart.out.text, "LF") IN
    /\ Len(lines) = 1 + Len(Exported.times)
    /\ lines[1] = Join(Headers(chart.store.series, chart.out.options), ",")

\* The export of the full store is a header row and one row per sample held.
FullStoreCsvHasHeaderAndRows ==
  (chart.out.kind = "all" /\ Len(chart.store.series) > 0) =>
    LET lines == SplitOn(chart.out.text, "LF") IN
    /\ Len(lines) = 1 + Held
    /\ lines[1] = Join(Headers(chart.store.series, chart.out.options), ",")

\* So is the export of a viewport that holds a sample.
ViewportCsvHasHeaderAndRows ==
  (chart.out.kind = "visible" /\ Len(Exported.times) > 0) =>
    LET lines == SplitOn(chart.out.text, "LF") IN
    /\ Len(lines) = 1 + Len(Exported.times)
    /\ lines[1] = Join(Headers(chart.store.series, chart.out.options), ",")

\* Row k of the export has as many fields as the header row, and the field of
\* each series is its value, empty when the value is not finite.
RowMatchesHeader(lines, k) ==
  LET fields == SplitOn(lines[k + 1], ",")
      first == IF chart.out.options.includeTimestamps THEN 1 ELSE 0 IN
  /\ Len(fields) = Len(SplitOn(lines[1], ","))
  /\ \A j \in 1..Len(chart.store.series) :
       /\ first + j <= Len(fields)
       /\ fields[first + j] = IF isFinite(Exported.data[j][k])
                              THEN toString(Exported.data[j][k].v) ELSE <<>>

\* C17: in a CSV export every data row has as many fields as the header row,
\* and the field of a value that is not finite is empty.
C17_RowsMatchHeader ==
  (chart.out.kind \in {"visible", "all"} /\ chart.out.text # NoDataAvailable) =>
    LET lines == SplitOn(chart.out.text, "LF") IN
    \A k \in 1..(Len(lines) - 1) : RowMatchesHeader(lines, k)

\* The same holds when no series name contains a comma.
NoCommaInNames ==
  \A j \in 1..Len(chart.store.series) :
    \A i \in 1..Len(chart.store.series[j]) : chart.store.series[j][i] # ","
RowsMatchHeaderWithoutCommas ==
  (/\ chart.out.kind \in {"visible", "all"}
   /\ chart.out.text # NoDataAvailable
   /\ NoCommaInNames) =>
    LET lines == SplitOn(chart.out.text, "LF") IN
    \A k \in 1..(Len(lines) - 1) : RowMatchesHeader(lines, k)

\* C21: decodeCOBS terminates on every input: an iteration of its loop throws
\* or moves the read offset on by at least 1, the loop ends by returning or
\* throwing, and the output returned for a non-empty input is shorter than the
\* input by at least one byte.
C21_DecodeTerminates ==
  /\ [][(dec.stage = "loop" /\ dec.i < Len(dec.data))
        => (dec'.stage = "thrown" \/ dec'.i >= dec.i + 1)]_vars
  /\ <>(dec.stage \in {"returned", "thrown"})
  /\ []((dec.stage = "returned" /\ Len(dec.data) > 0)
        => Len(dec.output) <= Len(dec.data) - 1)

\* A frame of three blocks of code 1 was decoded in three iterations into
\* two zeros: an output one byte shorter than the input.
C21_ReturnedOneByteShorter ==
  /\ dec.stage = "returned"
  /\ dec.data = <<1, 1, 1>>
  /\ dec.i = 3
  /\ dec.output = <<0, 0>>

\* The loop run step by step returns what decodeCOBS returns.
LoopAgreesWithDecodeCOBS ==
  /\ dec.stage = "returned" => decodeCOBS(dec.data) = [thrown |-> FALSE, value |-> dec.output]
  /\ dec.stage = "thrown" => decodeCOBS(dec.data) = [thrown |-> TRUE, value |-> <<>>]

====
